---- MODULE Spec2Model ----
\* Key generation (crypto/keys/generate.go), the SignerFactory registry
\* (crypto/keys/signer_factory.go), the PKCS#11 handler (crypto/keys/pkcs11)
\* and the PEM / DER key loaders of trillian, as a state machine over one
\* factory value: Spec for the factory and the generator, SpecKeys for loading
\* and exercising keys, SpecDer for a factory that resolves DER descriptors,
\* SpecConcurrent for one factory shared by several goroutines, SpecCopies for
\* SignerFactory values copied from the factory, SpecPkcs11 for the map
\* server's init() registration of the PKCS#11 handler.
EXTENDS Integers, FiniteSets, Sequences, TLC

VARIABLES
    handlers,     \* SignerFactory.handlers: map[string]ProtoHandler
    Generate,     \* SignerFactory.Generate: ProtoGenerator or nil
    modulePath,   \* the string behind the pkcs11_module_path flag pointer
    reg,          \* history: per message type, what the callers last did to its handler
    genAssigned,  \* history: Generate was assigned since the factory was constructed
    ret,          \* the last call and what it returned
    goroutines,   \* per goroutine, the factory method it is in and where
    crashed,      \* the runtime has stopped the process with a fatal error
    phase,        \* history: how registrations and lookups have been ordered so far
    copies,       \* the SignerFactory values copied from the factory, by variable name
    regVia        \* history: per message type, the value its handler was last added or removed through

vars == <<handlers, Generate, modulePath, reg, genAssigned, ret,
          goroutines, crashed, phase, copies, regVia>>

-----------------------------------------------------------------------------
\* Bounds of the model.

\* How far around 0 and around the minimum RSA size the requested bit-lengths range.
BitsSlack == 2

-----------------------------------------------------------------------------
\* Program constants.

DefaultRsaKeySizeInBits == 2048
MinRsaKeySizeInBits == 2048

\* Specification_RSA.Bits is an int32.
MinInt32 == (0 - 2147483647) - 1
MaxInt32 == 0 + 2147483647

\* The curve enum of keyspb.Specification_ECDSA; UNKNOWN_* stand for int32
\* values that are not enumerated.
SupportedCurveValues == {"DEFAULT_CURVE", "P256", "P384", "P521"}
CurveValues == SupportedCurveValues \cup {"UNKNOWN_4", "UNKNOWN_NEG1"}

BitsValues ==
    {MinInt32, -4096, 3072, 4096, MaxInt32}
        \cup ((0 - BitsSlack) .. BitsSlack)
        \cup ((MinRsaKeySizeInBits - BitsSlack) .. (MinRsaKeySizeInBits + BitsSlack))

-----------------------------------------------------------------------------
\* Values.

\* A *keyspb.Specification: ptr "nil" is the nil pointer; kind is the oneof
\* wrapper stored in Params ("nil" when no params are set); hasMsg tells whether
\* the wrapper's EcdsaParams / RsaParams message pointer is non-nil.
NilSpec == [ptr |-> "nil", kind |-> "nil", hasMsg |-> FALSE, curve |-> "DEFAULT_CURVE", bits |-> 0]

Specs ==
    {NilSpec}
        \cup {[ptr |-> "obj", kind |-> "nil", hasMsg |-> FALSE, curve |-> "DEFAULT_CURVE", bits |-> 0]}
        \cup {[ptr |-> "obj", kind |-> "ecdsa", hasMsg |-> FALSE, curve |-> "DEFAULT_CURVE", bits |-> 0]}
        \cup {[ptr |-> "obj", kind |-> "ecdsa", hasMsg |-> TRUE, curve |-> c, bits |-> 0] : c \in CurveValues}
        \cup {[ptr |-> "obj", kind |-> "rsa", hasMsg |-> FALSE, curve |-> "DEFAULT_CURVE", bits |-> 0]}
        \cup {[ptr |-> "obj", kind |-> "rsa", hasMsg |-> TRUE, curve |-> "DEFAULT_CURVE", bits |-> b] : b \in BitsValues}

\* A crypto.Signer interface value: typ is its dynamic type ("nil" for the nil
\* interface), ptr the pointer it holds.
NilSigner == [typ |-> "nil", ptr |-> "nil", curve |-> "none", bits |-> 0]

\* Converting a concrete pointer to the crypto.Signer interface: the result
\* carries the dynamic type whatever the pointer is.
AsSigner(typ, key) == [typ |-> typ, ptr |-> key.ptr, curve |-> key.curve, bits |-> key.bits]

\* The outcome of the environment for one call: whether the library call that
\* reads the random source or talks to the token succeeds, and which pointer a
\* failing pkcs11key.New leaves in its result.
Envs == [libOK : BOOLEAN, failPtr : {"nil", "obj"}]

\* The outcomes that differ for a call that only reads the random source.
RandEnvs == {e \in Envs : e.failPtr = "nil"}

-----------------------------------------------------------------------------
\* crypto/keys/generate.go

\* The generated getters are nil-safe: on a nil receiver they return the zero value.
GetParamsDefaultsToRsa(spec) ==
    IF spec.ptr = "nil" \/ spec.kind = "nil" THEN "rsa" ELSE spec.kind

GetParams(spec) == IF spec.ptr = "nil" THEN "nil" ELSE spec.kind

GetCurve(spec) == IF spec.hasMsg THEN spec.curve ELSE "DEFAULT_CURVE"

GetBits(spec) == IF spec.hasMsg THEN spec.bits ELSE 0

\* int(x) of an int32 x: widening a signed value keeps its value and its sign.
IntOfInt32Magnitude(b) == IF b < 0 /\ b # MinInt32 THEN 0 - b ELSE b

IntOfInt32(b) == b

\* The curve ECDSACurveFromParams selects; "nil" is the nil elliptic.Curve.
ECDSACurveFromParamsNoDefault(params) ==
    CASE GetCurve(params) = "P256" -> "P-256"
      [] GetCurve(params) = "P384" -> "P-384"
      [] GetCurve(params) = "P521" -> "P-521"
      [] OTHER -> "nil"

ECDSACurveFromParamsLenient(params) ==
    CASE GetCurve(params) = "P384" -> "P-384"
      [] GetCurve(params) = "P521" -> "P-521"
      [] OTHER -> "P-256"

ECDSACurveFromParams(params) ==
    CASE GetCurve(params) = "DEFAULT_CURVE" -> "P-256"
      [] GetCurve(params) = "P256" -> "P-256"
      [] GetCurve(params) = "P384" -> "P-384"
      [] GetCurve(params) = "P521" -> "P-521"
      [] OTHER -> "nil"

\* ecdsa.GenerateKey(curve, rand.Reader): (*ecdsa.PrivateKey, error); a nil
\* pointer comes with the error.
EcdsaGenerateKey(curve, env) ==
    IF env.libOK
    THEN [ptr |-> "obj", curve |-> curve, bits |-> 0, err |-> ""]
    ELSE [ptr |-> "nil", curve |-> "none", bits |-> 0, err |-> "ecdsa.GenerateKey failed"]

\* rsa.GenerateKey(rand.Reader, bits): (*rsa.PrivateKey, error); the modulus of
\* the key it returns has exactly the requested bit-length.
RsaGenerateKey(bits, env) ==
    IF env.libOK
    THEN [ptr |-> "obj", curve |-> "none", bits |-> bits, err |-> ""]
    ELSE [ptr |-> "nil", curve |-> "none", bits |-> 0, err |-> "rsa.GenerateKey failed"]

\* Lines 55-58: the bit-length NewFromSpec asks for.
RsaBitsIgnoreRequest(params) == DefaultRsaKeySizeInBits

RsaBits(params) ==
    LET bits == IntOfInt32(GetBits(params))
    IN  IF bits = 0 THEN DefaultRsaKeySizeInBits ELSE bits

\* What a call returns: the signer, the error ("" is nil) and the library
\* call it made, if any.
Result(signer, err, crypto) ==
    [signer |-> signer, err |-> err, crypto |-> crypto]

NewFromSpecGenerateFirst(spec, env) ==
    CASE GetParams(spec) = "ecdsa" ->
            LET curve == ECDSACurveFromParams(spec)
                key == EcdsaGenerateKey(curve, env)
            IN  IF curve = "nil"
                THEN Result(NilSigner, "unsupported ECDSA curve", "ecdsa.GenerateKey")
                ELSE Result(AsSigner("*ecdsa.PrivateKey", key), key.err,
                            "ecdsa.GenerateKey")
      [] GetParams(spec) = "rsa" ->
            LET bits == RsaBits(spec)
                key == RsaGenerateKey(bits, env)
            IN  IF bits < MinRsaKeySizeInBits
                THEN Result(NilSigner, "minimum RSA key size", "rsa.GenerateKey")
                ELSE Result(AsSigner("*rsa.PrivateKey", key), key.err,
                            "rsa.GenerateKey")
      [] OTHER -> Result(NilSigner, "unsupported keygen params type", "none")

NewFromSpec(spec, env) ==
    CASE GetParams(spec) = "ecdsa" ->
            LET curve == ECDSACurveFromParams(spec)
            IN  IF curve = "nil"
                THEN Result(NilSigner, "unsupported ECDSA curve", "none")
                ELSE LET key == EcdsaGenerateKey(curve, env)
                     IN  Result(AsSigner("*ecdsa.PrivateKey", key), key.err,
                                "ecdsa.GenerateKey")
      [] GetParams(spec) = "rsa" ->
            LET bits == RsaBits(spec)
            IN  IF bits < MinRsaKeySizeInBits
                THEN Result(NilSigner, "minimum RSA key size", "none")
                ELSE LET key == RsaGenerateKey(bits, env)
                     IN  Result(AsSigner("*rsa.PrivateKey", key), key.err,
                                "rsa.GenerateKey")
      [] OTHER -> Result(NilSigner, "unsupported keygen params type", "none")

-----------------------------------------------------------------------------
\* crypto/keys/signer_factory.go

\* The protobuf messages handed to the factory: a message type and its field
\* values ("empty" is the zero message used as a registration example, "valid"
\* one whose key material parses, "malformed" one whose key material does not).
MsgTypes == {"keyspb.PrivateKey", "keyspb.PKCS11Config"}
Payloads == {"empty", "valid", "malformed"}
Messages == [typ : MsgTypes, payload : Payloads]

\* The handlers callers register: the PKCS#11 handler and two handlers of the
\* caller's own.
HandlerIds == {"pkcs11", "h1", "h2"}

\* proto.MessageName: the registered name of the message's type (a one-element
\* tuple, the map's key).
MessageNameWithFields(m) == <<m.typ, m.payload>>

MessageName(m) == <<m.typ>>

EmptyHandlers == [k \in {} |-> "none"]

\* NewSignerFactory(): no handlers, no generator.
NewSignerFactoryWithGenerator == [Generate |-> "gen", handlers |-> EmptyHandlers]

NewSignerFactory == [Generate |-> "nil", handlers |-> EmptyHandlers]

\* f.handlers[key] = handler
MapSetAlone(m, key, h) == [k \in {key} |-> h]

MapSetKeepFirst(m, key, h) ==
    [k \in DOMAIN m \cup {key} |-> IF k \in DOMAIN m THEN m[k] ELSE h]

MapSet(m, key, h) ==
    [k \in DOMAIN m \cup {key} |-> IF k = key THEN h ELSE m[k]]

\* delete(f.handlers, key)
MapDeleteNothing(m, key) == m

MapDelete(m, key) == [k \in DOMAIN m \ {key} |-> m[k]]

-----------------------------------------------------------------------------
\* crypto/keys/pkcs11

ModulePaths == {"", "/usr/lib/softhsm/libsofthsm.so"}

\* keys.NewFromPublicPEM on the configured public key: an error unless the PEM parses.
NewFromPublicPEM(pem) == IF pem = "valid" THEN "" ELSE "could not decode PEM"

\* pkcs11key.New(modulePath, tokenLabel, pin, pubKey): (*pkcs11key.Key, error).
\* Which pointer accompanies an error is the library's business.
Pkcs11keyNew(env) ==
    IF env.libOK
    THEN [ptr |-> "obj", curve |-> "none", bits |-> 0, err |-> ""]
    ELSE [ptr |-> env.failPtr, curve |-> "none", bits |-> 0, err |-> "pkcs11key.New failed"]

\* FromConfig(modulePath, config)
FromConfigParseFirst(path, config, env) ==
    IF NewFromPublicPEM(config.payload) # ""
    THEN Result(NilSigner, "pkcs11: error loading public key", "none")
    ELSE IF path = ""
         THEN Result(NilSigner, "pkcs11: No module path", "none")
         ELSE LET key == Pkcs11keyNew(env)
              IN  Result(AsSigner("*pkcs11key.Key", key), key.err, "pkcs11key.New")

FromConfig(path, config, env) ==
    IF path = ""
    THEN Result(NilSigner, "pkcs11: No module path", "none")
    ELSE IF NewFromPublicPEM(config.payload) # ""
         THEN Result(NilSigner, "pkcs11: error loading public key", "none")
         ELSE LET key == Pkcs11keyNew(env)
              IN  Result(AsSigner("*pkcs11key.Key", key), key.err, "pkcs11key.New")

\* The closure ProtoHandler(modulePath) returns, applied to pb; path is the
\* string its pointer refers to when the closure runs.
ProtoHandlerPathAtInit(path, pb, env) ==
    IF pb.typ = "keyspb.PKCS11Config"
    THEN FromConfig("", pb, env)
    ELSE Result(NilSigner, "pkcs11: got wrong message type", "none")

ProtoHandler(path, pb, env) ==
    IF pb.typ = "keyspb.PKCS11Config"
    THEN FromConfig(path, pb, env)
    ELSE Result(NilSigner, "pkcs11: got wrong message type", "none")

\* A handler of the caller's own: a signer, or nil and an error.
CallerHandler(h, pb, env) ==
    IF env.libOK /\ pb.payload = "valid"
    THEN Result([typ |-> h, ptr |-> "obj", curve |-> "none", bits |-> 0], "", "none")
    ELSE Result(NilSigner, "handler failed", "none")

-----------------------------------------------------------------------------
\* Loading keys: PEM text, PEM files, DER bytes.

\* A PEM text is a sequence of items: "junk" is a run of non-PEM bytes, the
\* others are PEM blocks: an unencrypted ECDSA or RSA private key, a private
\* key encrypted under KeyPassword, and a block whose DER does not parse.
PemBlocks == {"ecdsa", "rsa", "encrypted", "corrupt"}
PemItems == {"junk"} \cup PemBlocks

MaxPemLen == 2

PemTexts == UNION {[1..n -> PemItems] : n \in 0..MaxPemLen}

KeyPassword == "towel"
Passwords == {"", "towel", "towelfoo"}

\* The keys the test material holds.
EcdsaTestKey == [typ |-> "*ecdsa.PrivateKey", ptr |-> "obj", curve |-> "P-256", bits |-> 0]
RsaTestKey == [typ |-> "*rsa.PrivateKey", ptr |-> "obj", curve |-> "none", bits |-> 2048]

\* DER bytes: the encoding format and the key inside; "garbage" does not
\* parse, "empty" is no bytes at all.
DerOfKey(key) ==
    [format |-> "pkcs8", typ |-> key.typ, curve |-> key.curve, bits |-> key.bits]
GarbageDer == [format |-> "garbage", typ |-> "nil", curve |-> "none", bits |-> 0]
EmptyDer == [format |-> "empty", typ |-> "nil", curve |-> "none", bits |-> 0]

\* MarshalPrivateKey: the DER of a generated key.
MarshalPrivateKey(signer) == DerOfKey(signer)

\* NewFromPrivateDER / FromDER: the key in DER bytes that parse.
FromDERAcceptAll(der) ==
    Result([typ |-> "*ecdsa.PrivateKey", ptr |-> "obj", curve |-> "P-256", bits |-> 0],
           "", "none")

FromDER(der) ==
    IF der.format \in {"pkcs8", "pkcs1", "sec1"}
          /\ der.typ \in {"*ecdsa.PrivateKey", "*rsa.PrivateKey"}
    THEN Result([typ |-> der.typ, ptr |-> "obj", curve |-> der.curve, bits |-> der.bits],
                "", "none")
    ELSE Result(NilSigner, "could not parse DER", "none")

\* pem.Decode: the first PEM block of the text and what follows it; without a
\* block, no block and the whole text.
FirstBlockAt(text) ==
    IF \E i \in 1..Len(text) : text[i] # "junk"
    THEN CHOOSE i \in 1..Len(text) :
             text[i] # "junk" /\ \A j \in 1..(i - 1) : text[j] = "junk"
    ELSE 0

PemDecode(text) ==
    LET i == FirstBlockAt(text)
    IN  IF i = 0
        THEN [block |-> "nil", rest |-> text]
        ELSE [block |-> text[i], rest |-> SubSeq(text, i + 1, Len(text))]

\* The DER inside a block, after decryption with password where the block is
\* encrypted; "" for the error is success.
DecryptAnyPassword(block, password) ==
    CASE block = "ecdsa" -> [der |-> DerOfKey(EcdsaTestKey), err |-> ""]
      [] block = "rsa" -> [der |-> DerOfKey(RsaTestKey), err |-> ""]
      [] block = "encrypted" -> [der |-> DerOfKey(EcdsaTestKey), err |-> ""]
      [] OTHER -> [der |-> GarbageDer, err |-> ""]

BlockDer(block, password) ==
    CASE block = "ecdsa" -> [der |-> DerOfKey(EcdsaTestKey), err |-> ""]
      [] block = "rsa" -> [der |-> DerOfKey(RsaTestKey), err |-> ""]
      [] block = "encrypted" ->
            IF password = KeyPassword
            THEN [der |-> DerOfKey(EcdsaTestKey), err |-> ""]
            ELSE [der |-> GarbageDer, err |-> "decryption password incorrect"]
      [] OTHER -> [der |-> GarbageDer, err |-> ""]

\* NewFromPrivatePEM(pemEncodedKey, password)
NewFromPrivatePEMIgnoreRest(text, password) ==
    LET d == PemDecode(text)
    IN  IF d.block = "nil"
        THEN Result(NilSigner, "no PEM block", "none")
        ELSE LET b == BlockDer(d.block, password)
             IN  IF b.err # ""
                 THEN Result(NilSigner, b.err, "none")
                 ELSE FromDER(b.der)

NewFromPrivatePEM(text, password) ==
    LET d == PemDecode(text)
    IN  IF d.block = "nil"
        THEN Result(NilSigner, "no PEM block", "none")
        ELSE IF Len(d.rest) > 0
        THEN Result(NilSigner, "trailing data", "none")
        ELSE LET b == BlockDer(d.block, password)
             IN  IF b.err # ""
                 THEN Result(NilSigner, b.err, "none")
                 ELSE FromDER(b.der)

\* A path of the file system: missing, present but unreadable, or readable
\* with some contents.
FileKinds == {"missing", "unreadable", "readable"}

\* NewFromPrivatePEMFile(file, password)
NewFromPrivatePEMFileNoPassword(kind, contents, password) ==
    IF kind # "readable"
    THEN Result(NilSigner, "could not read file", "none")
    ELSE NewFromPrivatePEM(contents, "")

NewFromPrivatePEMFile(kind, contents, password) ==
    IF kind # "readable"
    THEN Result(NilSigner, "could not read file", "none")
    ELSE NewFromPrivatePEM(contents, password)

\* The DER bytes of a keyspb.PrivateKey message.
MsgDer(pb) ==
    CASE pb.payload = "valid" -> DerOfKey(EcdsaTestKey)
      [] pb.payload = "malformed" -> GarbageDer
      [] OTHER -> EmptyDer

\* FromProto(pb): the key in the descriptor's DER bytes.
FromProto(der) == FromDER(der)

\* The handler for keyspb.PrivateKey messages.
DerProtoHandler(pb) ==
    IF pb.typ = "keyspb.PrivateKey"
    THEN FromProto(MsgDer(pb))
    ELSE Result(NilSigner, "der: got wrong message type", "none")

\* handler(ctx, keyProto)
InvokeHandler(h, pb, env, path) ==
    CASE h = "pkcs11" -> ProtoHandler(path, pb, env)
      [] h = "der" -> DerProtoHandler(pb)
      [] OTHER -> CallerHandler(h, pb, env)

-----------------------------------------------------------------------------
\* signAndVerify (generate_test.go): sign a fixed digest, verify the signature.

TestDigest == "sha256(test)"

\* signer.Public()
Public(signer) ==
    [typ |-> CASE signer.typ = "*ecdsa.PrivateKey" -> "*ecdsa.PublicKey"
               [] signer.typ = "*rsa.PrivateKey" -> "*rsa.PublicKey"
               [] OTHER -> "unknown",
     curve |-> signer.curve, bits |-> signer.bits]

\* signer.Sign(rand.Reader, digest, opts): an ASN.1 (r, s) pair from an ECDSA
\* key; from an RSA key a PSS signature when opts is *rsa.PSSOptions and a
\* PKCS#1 v1.5 signature otherwise.
Sign(signer, digest, opts, env) ==
    IF ~env.libOK
    THEN [sig |-> [scheme |-> "none", curve |-> "none", bits |-> 0,
                   digest |-> "", hash |-> "none"],
          err |-> "sign failed"]
    ELSE [sig |-> [scheme |-> CASE signer.typ = "*ecdsa.PrivateKey" -> "ecdsa-asn1"
                                [] signer.typ = "*rsa.PrivateKey" ->
                                       IF opts = "*rsa.PSSOptions" THEN "pss" ELSE "pkcs1v15"
                                [] OTHER -> "other",
                   curve |-> signer.curve, bits |-> signer.bits,
                   digest |-> digest, hash |-> "SHA256"],
          err |-> ""]

verifyECDSA(pubKey, digest, sig) ==
    IF sig.scheme # "ecdsa-asn1"
    THEN "asn1: structure error"
    ELSE IF ~(sig.curve = pubKey.curve /\ sig.digest = digest)
    THEN "ECDSA signature failed verification"
    ELSE ""

verifyRSAAlwaysPSS(pubKey, digest, sig, hasher, opts) ==
    IF sig.scheme = "pss" /\ sig.bits = pubKey.bits /\ sig.digest = digest
          /\ sig.hash = hasher
    THEN ""
    ELSE "crypto/rsa: verification error"

verifyRSA(pubKey, digest, sig, hasher, opts) ==
    LET scheme == IF opts = "*rsa.PSSOptions" THEN "pss" ELSE "pkcs1v15"
    IN  IF sig.scheme = scheme /\ sig.bits = pubKey.bits /\ sig.digest = digest
              /\ sig.hash = hasher
        THEN ""
        ELSE "crypto/rsa: verification error"

signAndVerify(signer, pubKey, env) ==
    LET hasher == "SHA256"
        s == Sign(signer, TestDigest, hasher, env)
    IN  IF s.err # ""
        THEN s.err
        ELSE CASE pubKey.typ = "*ecdsa.PublicKey" -> verifyECDSA(pubKey, TestDigest, s.sig)
               [] pubKey.typ = "*rsa.PublicKey" ->
                      verifyRSA(pubKey, TestDigest, s.sig, hasher, hasher)
               [] OTHER -> "unknown public key type"

-----------------------------------------------------------------------------
\* Key generation through the factory.

Generators == {"nil", "gen"}

\* The generator callers assign to Generate: a key from NewFromSpec, wrapped in
\* a keyspb.PrivateKey descriptor.
NewProtoFromSpec(spec, env) ==
    LET r == NewFromSpec(spec, env)
    IN  IF r.err # ""
        THEN [desc |-> "nil", der |-> EmptyDer, err |-> r.err, crypto |-> r.crypto]
        ELSE [desc |-> "keyspb.PrivateKey", der |-> MarshalPrivateKey(r.signer),
              err |-> "", crypto |-> r.crypto]

\* A key-generation request on a factory whose Generate field is g.
GenerateKey(g, spec, env) ==
    IF g = "nil"
    THEN [desc |-> "nil", der |-> EmptyDer, err |-> "generation not supported",
          crypto |-> "none"]
    ELSE NewProtoFromSpec(spec, env)

-----------------------------------------------------------------------------
\* The state machine.

\* The goroutines that call the factory's methods, and a goroutine that is
\* in none of them: key is the map key it works on, h the handler it adds,
\* found what its lookup read ("none" for a miss), raced whether the map was
\* being written when it read.
Goroutines == {"g1", "g2"}

Idle ==
    [pc |-> "idle", key |-> <<>>, typ |-> "none", h |-> "none",
     found |-> "none", raced |-> FALSE]

\* A SignerFactory value: its Generate field and its handlers field, which is
\* a reference to a map object: "made" is the object NewSignerFactory made,
\* whose contents are the variable handlers; "own" is a separate object whose
\* contents the value carries; "nil" is the nil map of the zero value.
Value(g, ref, own) == [Generate |-> g, ref |-> ref, own |-> own]

ZeroValue == Value("nil", "nil", EmptyHandlers)

\* The variables that hold copies of the factory.
CopyNames == {"c1", "c2"}
FactoryNames == {"sf"} \cup CopyNames

NeverRegistered == [t \in MsgTypes |-> "never"]

NoRet ==
    [op |-> "none", typ |-> "none", payload |-> "none", h |-> "none",
     prior |-> "none", warned |-> FALSE, invoked |-> "none",
     signer |-> NilSigner, err |-> "", crypto |-> "none",
     spec |-> NilSpec, libOK |-> TRUE, curve |-> "none", desc |-> "nil",
     path |-> "", pem |-> <<>>, password |-> "", file |-> "none",
     der |-> EmptyDer, calls |-> <<>>, ctx |-> "none", via |-> "none"]

Init ==
    /\ handlers = NewSignerFactory.handlers
    /\ Generate = NewSignerFactory.Generate
    /\ modulePath = ""
    /\ reg = NeverRegistered
    /\ genAssigned = FALSE
    /\ ret = [NoRet EXCEPT !.op = "NewSignerFactory"]
    /\ goroutines = [g \in Goroutines |-> Idle]
    /\ crashed = FALSE
    /\ phase = "registering"
    /\ copies = [c \in CopyNames |-> ZeroValue]
    /\ regVia = [t \in MsgTypes |-> "none"]

\* sf := NewSignerFactory(): the factory is replaced by a fresh one.
NewSignerFactoryCall ==
    /\ handlers' = NewSignerFactory.handlers
    /\ Generate' = NewSignerFactory.Generate
    /\ reg' = NeverRegistered
    /\ genAssigned' = FALSE
    /\ ret' = [NoRet EXCEPT !.op = "NewSignerFactory"]
    /\ UNCHANGED <<modulePath, goroutines, crashed, phase, copies, regVia>>

\* NewFromSpec(spec)
NewFromSpecCall ==
    \E spec \in Specs, env \in RandEnvs :
        LET r == NewFromSpec(spec, env)
        IN  /\ ret' = [NoRet EXCEPT !.op = "NewFromSpec", !.spec = spec,
                                    !.libOK = env.libOK, !.signer = r.signer,
                                    !.err = r.err, !.crypto = r.crypto]
            /\ UNCHANGED <<handlers, Generate, modulePath, reg, genAssigned, goroutines, crashed, phase, copies, regVia>>

\* ECDSACurveFromParams(params)
ECDSACurveFromParamsCall ==
    \E spec \in {s \in Specs : s.kind = "ecdsa"} :
        /\ ret' = [NoRet EXCEPT !.op = "ECDSACurveFromParams", !.spec = spec,
                                !.curve = ECDSACurveFromParams(spec)]
        /\ UNCHANGED <<handlers, Generate, modulePath, reg, genAssigned, goroutines, crashed, phase, copies, regVia>>

\* f.AddHandler(keyProto, handler)
AddHandler(keyProto, handler) ==
    LET keyProtoType == MessageName(keyProto)
        alreadyExists == keyProtoType \in DOMAIN handlers
    IN  /\ handlers' = MapSet(handlers, keyProtoType, handler)
        /\ reg' = [reg EXCEPT ![keyProto.typ] = handler]
        /\ ret' = [NoRet EXCEPT !.op = "AddHandler", !.typ = keyProto.typ,
                                !.payload = keyProto.payload, !.h = handler,
                                !.prior = reg[keyProto.typ],
                                !.warned = alreadyExists]
        /\ UNCHANGED <<Generate, modulePath, genAssigned, goroutines, crashed, phase, copies, regVia>>

\* f.RemoveHandler(keyProto)
RemoveHandler(keyProto) ==
    /\ handlers' = MapDelete(handlers, MessageName(keyProto))
    /\ reg' = [reg EXCEPT ![keyProto.typ] = "removed"]
    /\ ret' = [NoRet EXCEPT !.op = "RemoveHandler", !.typ = keyProto.typ,
                            !.payload = keyProto.payload,
                            !.prior = reg[keyProto.typ]]
    /\ UNCHANGED <<Generate, modulePath, genAssigned, goroutines, crashed, phase, copies, regVia>>

\* The contexts callers pass.
Contexts == {"ctx1", "ctx2"}

\* A lookup that invokes the handler again after it has failed.
NewSignerRetry(ctx, keyProto, env) ==
    LET keyProtoType == MessageName(keyProto)
        ok == keyProtoType \in DOMAIN handlers
        call == [h |-> IF ok THEN handlers[keyProtoType] ELSE "none",
                 ctx |-> ctx, pb |-> keyProto]
        first == IF ok
                 THEN InvokeHandler(handlers[keyProtoType], keyProto, env, modulePath)
                 ELSE Result(NilSigner, "no ProtoHandler registered", "none")
        again == ok /\ first.err # ""
        r == IF again
             THEN InvokeHandler(handlers[keyProtoType], keyProto, env, modulePath)
             ELSE first
    IN  /\ ret' = [NoRet EXCEPT !.op = "NewSigner", !.typ = keyProto.typ,
                                !.payload = keyProto.payload, !.ctx = ctx,
                                !.invoked = call.h,
                                !.calls = IF ~ok THEN <<>>
                                          ELSE IF again THEN <<call, call>>
                                          ELSE <<call>>,
                                !.prior = reg[keyProto.typ],
                                !.libOK = env.libOK, !.path = modulePath,
                                !.signer = r.signer, !.err = r.err,
                                !.crypto = r.crypto]
        /\ UNCHANGED <<handlers, Generate, modulePath, reg, genAssigned, goroutines, crashed, phase, copies, regVia>>

\* f.NewSigner(ctx, keyProto); calls lists the handler invocations it makes,
\* each with the arguments passed.
NewSigner(ctx, keyProto, env) ==
    LET keyProtoType == MessageName(keyProto)
        ok == keyProtoType \in DOMAIN handlers
        r == IF ok
             THEN InvokeHandler(handlers[keyProtoType], keyProto, env, modulePath)
             ELSE Result(NilSigner, "no ProtoHandler registered", "none")
    IN  /\ ret' = [NoRet EXCEPT !.op = "NewSigner", !.typ = keyProto.typ,
                                !.payload = keyProto.payload, !.ctx = ctx,
                                !.invoked = IF ok THEN handlers[keyProtoType] ELSE "none",
                                !.calls = IF ok
                                          THEN <<[h |-> handlers[keyProtoType],
                                                  ctx |-> ctx, pb |-> keyProto]>>
                                          ELSE <<>>,
                                !.prior = reg[keyProto.typ],
                                !.libOK = env.libOK, !.path = modulePath,
                                !.signer = r.signer, !.err = r.err,
                                !.crypto = r.crypto]
        /\ UNCHANGED <<handlers, Generate, modulePath, reg, genAssigned, goroutines, crashed, phase, copies, regVia>>

\* sf.Generate = g
SetGenerate ==
    \E g \in Generators :
        /\ Generate' = g
        /\ genAssigned' = TRUE
        /\ ret' = [NoRet EXCEPT !.op = "SetGenerate"]
        /\ UNCHANGED <<handlers, modulePath, reg, goroutines, crashed, phase, copies, regVia>>

\* A request to generate a key from spec through the factory.
GenerateRequest ==
    \E spec \in Specs, env \in RandEnvs :
        LET r == GenerateKey(Generate, spec, env)
        IN  /\ ret' = [NoRet EXCEPT !.op = "GenerateRequest", !.spec = spec,
                                    !.libOK = env.libOK, !.desc = r.desc,
                                    !.err = r.err, !.crypto = r.crypto]
            /\ UNCHANGED <<handlers, Generate, modulePath, reg, genAssigned, goroutines, crashed, phase, copies, regVia>>

\* flag.Parse / flag.Set on pkcs11_module_path
SetModulePath ==
    \E p \in ModulePaths :
        /\ modulePath' = p
        /\ ret' = [NoRet EXCEPT !.op = "SetModulePath", !.path = p]
        /\ UNCHANGED <<handlers, Generate, reg, genAssigned, goroutines, crashed, phase, copies, regVia>>

Next ==
    \/ NewSignerFactoryCall
    \/ NewFromSpecCall
    \/ ECDSACurveFromParamsCall
    \/ \E keyProto \in Messages, handler \in HandlerIds : AddHandler(keyProto, handler)
    \/ \E keyProto \in Messages : RemoveHandler(keyProto)
    \/ \E ctx \in Contexts, keyProto \in Messages, env \in Envs :
           NewSigner(ctx, keyProto, env)
    \/ SetGenerate
    \/ GenerateRequest
    \/ SetModulePath

Spec == Init /\ [][Next]_vars

-----------------------------------------------------------------------------
\* Loading, generating and exercising keys.

\* NewFromPrivatePEM(pemEncodedKey, password)
NewFromPrivatePEMCall ==
    \E text \in PemTexts, password \in Passwords :
        LET r == NewFromPrivatePEM(text, password)
        IN  /\ ret' = [NoRet EXCEPT !.op = "NewFromPrivatePEM", !.pem = text,
                                    !.password = password, !.signer = r.signer,
                                    !.err = r.err]
            /\ UNCHANGED <<handlers, Generate, modulePath, reg, genAssigned, goroutines, crashed, phase, copies, regVia>>

\* NewFromPrivatePEMFile(file, password), the path being of the given kind
\* and, when readable, holding the given contents.
NewFromPrivatePEMFileCall ==
    \E kind \in FileKinds, password \in Passwords :
        \E contents \in IF kind = "readable" THEN PemTexts ELSE {<<>>} :
            LET r == NewFromPrivatePEMFile(kind, contents, password)
            IN  /\ ret' = [NoRet EXCEPT !.op = "NewFromPrivatePEMFile",
                                        !.file = kind, !.pem = contents,
                                        !.password = password,
                                        !.signer = r.signer, !.err = r.err]
                /\ UNCHANGED <<handlers, Generate, modulePath, reg, genAssigned, goroutines, crashed, phase, copies, regVia>>

\* pb, err := NewProtoFromSpec(ctx, spec)
NewProtoFromSpecCall ==
    \E spec \in Specs, env \in RandEnvs :
        LET r == NewProtoFromSpec(spec, env)
        IN  /\ ret' = [NoRet EXCEPT !.op = "NewProtoFromSpec", !.spec = spec,
                                    !.libOK = env.libOK, !.desc = r.desc,
                                    !.der = r.der, !.err = r.err,
                                    !.crypto = r.crypto]
            /\ UNCHANGED <<handlers, Generate, modulePath, reg, genAssigned, goroutines, crashed, phase, copies, regVia>>

\* key, err := FromProto(pb) on the descriptor NewProtoFromSpec just returned
FromProtoCall ==
    /\ ret.op = "NewProtoFromSpec"
    /\ ret.err = ""
    /\ LET r == FromProto(ret.der)
       IN  ret' = [ret EXCEPT !.op = "FromProto", !.prior = "NewProtoFromSpec",
                              !.signer = r.signer, !.err = r.err]
    /\ UNCHANGED <<handlers, Generate, modulePath, reg, genAssigned, goroutines, crashed, phase, copies, regVia>>

\* The calls that return a signer.
SignerOps ==
    {"NewFromSpec", "NewFromPrivatePEM", "NewFromPrivatePEMFile", "FromProto",
     "NewSigner"}

\* signAndVerify(signer, signer.Public()) on the signer just returned
SignAndVerifyCall ==
    /\ ret.op \in SignerOps
    /\ ret.err = ""
    /\ \E env \in RandEnvs :
           ret' = [ret EXCEPT !.op = "signAndVerify", !.prior = ret.op,
                              !.libOK = env.libOK,
                              !.err = signAndVerify(ret.signer, Public(ret.signer), env)]
    /\ UNCHANGED <<handlers, Generate, modulePath, reg, genAssigned, goroutines, crashed, phase, copies, regVia>>

\* The handlers registered where keys are loaded from DER.
KeyHandlerIds == {"der", "h1"}

NextKeys ==
    \/ NewFromSpecCall
    \/ NewFromPrivatePEMCall
    \/ NewFromPrivatePEMFileCall
    \/ NewProtoFromSpecCall
    \/ FromProtoCall
    \/ SignAndVerifyCall

SpecKeys == Init /\ [][NextKeys]_vars

\* A factory that resolves keyspb.PrivateKey descriptors.
NextDer ==
    \/ NewSignerFactoryCall
    \/ \E keyProto \in Messages, handler \in KeyHandlerIds : AddHandler(keyProto, handler)
    \/ \E keyProto \in Messages : RemoveHandler(keyProto)
    \/ \E ctx \in Contexts, keyProto \in Messages, env \in RandEnvs :
           NewSigner(ctx, keyProto, env)
    \/ SignAndVerifyCall

SpecDer == Init /\ [][NextDer]_vars

-----------------------------------------------------------------------------
\* One factory shared by several goroutines. A method advances one access to
\* f.handlers at a time; a map write takes two steps, the runtime being inside
\* the map between them. An access made while another goroutine is inside a
\* map write is a data race: the read sees any of the values the map may
\* hold, or the runtime stops the process.

WriterPcs == {"AddHandler:63", "AddHandler:67", "mapassign", "RemoveHandler:73", "mapdelete"}
InsideWrite == {"mapassign", "mapdelete"}
CallablePcs == {"idle", "returned"}

\* The messages passed as examples of their type.
Examples == {m \in Messages : m.payload = "empty"}

Racing(g) == \E w \in Goroutines \ {g} : goroutines[w].pc \in InsideWrite

WriterActive(g) == \E w \in Goroutines \ {g} : goroutines[w].pc \in WriterPcs

\* What a method waits for before it touches f.handlers: the struct holds no
\* lock and no method takes one, so nothing.
CanAccessMapUnderMutex(g) == ~Racing(g)

CanAccessMap(g) == TRUE

\* What a read of key may see while the map is being written.
RacyReads(g, key) ==
    {"none"}
        \cup {handlers[k] : k \in {key} \cap DOMAIN handlers}
        \cup {goroutines[w].h : w \in {x \in Goroutines \ {g} :
                                        /\ goroutines[x].pc = "mapassign"
                                        /\ goroutines[x].key = key}}

\* A goroutine calls f.AddHandler(keyProto, handler): line 61.
EnterAddHandler(g, keyProto, handler) ==
    /\ ~crashed
    /\ goroutines[g].pc \in CallablePcs
    /\ goroutines' = [goroutines EXCEPT ![g] =
           [Idle EXCEPT !.pc = "AddHandler:63", !.key = MessageName(keyProto),
                        !.typ = keyProto.typ, !.h = handler]]
    /\ phase' = IF phase = "registering" /\ ~WriterActive(g)
                THEN "registering" ELSE "mixed"
    /\ UNCHANGED <<handlers, Generate, modulePath, reg, genAssigned, ret, crashed, copies, regVia>>

\* Line 63: _, alreadyExists := f.handlers[keyProtoType]
AddHandlerExists(g) ==
    /\ ~crashed
    /\ goroutines[g].pc = "AddHandler:63"
    /\ CanAccessMap(g)
    /\ \/ /\ goroutines' = [goroutines EXCEPT ![g].pc = "AddHandler:67",
                                              ![g].raced = Racing(g)]
          /\ UNCHANGED crashed
       \/ /\ Racing(g)
          /\ crashed' = TRUE
          /\ UNCHANGED goroutines
    /\ UNCHANGED <<handlers, Generate, modulePath, reg, genAssigned, ret, phase, copies, regVia>>

\* Line 67: f.handlers[keyProtoType] = handler, entering the map
AddHandlerAssign(g) ==
    /\ ~crashed
    /\ goroutines[g].pc = "AddHandler:67"
    /\ CanAccessMap(g)
    /\ \/ /\ goroutines' = [goroutines EXCEPT ![g].pc = "mapassign",
                                              ![g].raced = @ \/ Racing(g)]
          /\ UNCHANGED crashed
       \/ /\ Racing(g)
          /\ crashed' = TRUE
          /\ UNCHANGED goroutines
    /\ UNCHANGED <<handlers, Generate, modulePath, reg, genAssigned, ret, phase, copies, regVia>>

\* Line 67: the write done, AddHandler returns
AddHandlerAssigned(g) ==
    /\ ~crashed
    /\ goroutines[g].pc = "mapassign"
    /\ handlers' = MapSet(handlers, goroutines[g].key, goroutines[g].h)
    /\ reg' = [reg EXCEPT ![goroutines[g].typ] = goroutines[g].h]
    /\ goroutines' = [goroutines EXCEPT ![g] = Idle]
    /\ UNCHANGED <<Generate, modulePath, genAssigned, ret, crashed, phase, copies, regVia>>

\* A goroutine calls f.RemoveHandler(keyProto): line 72.
EnterRemoveHandler(g, keyProto) ==
    /\ ~crashed
    /\ goroutines[g].pc \in CallablePcs
    /\ goroutines' = [goroutines EXCEPT ![g] =
           [Idle EXCEPT !.pc = "RemoveHandler:73", !.key = MessageName(keyProto),
                        !.typ = keyProto.typ]]
    /\ phase' = IF phase = "registering" /\ ~WriterActive(g)
                THEN "registering" ELSE "mixed"
    /\ UNCHANGED <<handlers, Generate, modulePath, reg, genAssigned, ret, crashed, copies, regVia>>

\* Line 73: delete(f.handlers, ...), entering the map
RemoveHandlerDelete(g) ==
    /\ ~crashed
    /\ goroutines[g].pc = "RemoveHandler:73"
    /\ CanAccessMap(g)
    /\ \/ /\ goroutines' = [goroutines EXCEPT ![g].pc = "mapdelete",
                                              ![g].raced = Racing(g)]
          /\ UNCHANGED crashed
       \/ /\ Racing(g)
          /\ crashed' = TRUE
          /\ UNCHANGED goroutines
    /\ UNCHANGED <<handlers, Generate, modulePath, reg, genAssigned, ret, phase, copies, regVia>>

\* Line 73: the delete done, RemoveHandler returns
RemoveHandlerDeleted(g) ==
    /\ ~crashed
    /\ goroutines[g].pc = "mapdelete"
    /\ handlers' = MapDelete(handlers, goroutines[g].key)
    /\ reg' = [reg EXCEPT ![goroutines[g].typ] = "removed"]
    /\ goroutines' = [goroutines EXCEPT ![g] = Idle]
    /\ UNCHANGED <<Generate, modulePath, genAssigned, ret, crashed, phase, copies, regVia>>

\* A goroutine calls f.NewSigner(ctx, keyProto): line 78.
EnterNewSigner(g, keyProto) ==
    /\ ~crashed
    /\ goroutines[g].pc \in CallablePcs
    /\ goroutines' = [goroutines EXCEPT ![g] =
           [Idle EXCEPT !.pc = "NewSigner:81", !.key = MessageName(keyProto),
                        !.typ = keyProto.typ]]
    /\ phase' = IF phase = "mixed" \/ WriterActive(g) THEN "mixed" ELSE "serving"
    /\ UNCHANGED <<handlers, Generate, modulePath, reg, genAssigned, ret, crashed, copies, regVia>>

\* Line 81: handler, ok := f.handlers[keyProtoType]; with ok the handler is
\* invoked and NewSigner returns what it returns, without ok the error.
NewSignerLookup(g) ==
    /\ ~crashed
    /\ goroutines[g].pc = "NewSigner:81"
    /\ CanAccessMap(g)
    /\ LET key == goroutines[g].key
       IN  \/ /\ ~Racing(g)
              /\ goroutines' = [goroutines EXCEPT
                     ![g].pc = "returned",
                     ![g].found = IF key \in DOMAIN handlers
                                  THEN handlers[key] ELSE "none"]
              /\ UNCHANGED crashed
           \/ /\ Racing(g)
              /\ \E seen \in RacyReads(g, key) :
                     goroutines' = [goroutines EXCEPT ![g].pc = "returned",
                                                      ![g].found = seen,
                                                      ![g].raced = TRUE]
              /\ UNCHANGED crashed
           \/ /\ Racing(g)
              /\ crashed' = TRUE
              /\ UNCHANGED goroutines
    /\ UNCHANGED <<handlers, Generate, modulePath, reg, genAssigned, ret, phase, copies, regVia>>

\* The next access of goroutine g to f.handlers.
MapAccess(g) ==
    \/ AddHandlerExists(g)
    \/ AddHandlerAssign(g)
    \/ RemoveHandlerDelete(g)
    \/ NewSignerLookup(g)

NextConcurrent ==
    \E g \in Goroutines :
        \/ \E keyProto \in Examples, handler \in KeyHandlerIds :
               EnterAddHandler(g, keyProto, handler)
        \/ AddHandlerExists(g)
        \/ AddHandlerAssign(g)
        \/ AddHandlerAssigned(g)
        \/ \E keyProto \in Examples : EnterRemoveHandler(g, keyProto)
        \/ RemoveHandlerDelete(g)
        \/ RemoveHandlerDeleted(g)
        \/ \E keyProto \in Examples : EnterNewSigner(g, keyProto)
        \/ NewSignerLookup(g)

SpecConcurrent == Init /\ [][NextConcurrent]_vars

-----------------------------------------------------------------------------
\* Copies of the factory value. The methods have value receivers, so each call
\* works on a copy f of the value it is called on.

\* c := v, and the receiver f of a method called on v: both fields are
\* copied, and the copy of a map field refers to the same map object.
CopyValueDeep(v, contents) ==
    Value(v.Generate, IF v.ref = "nil" THEN "nil" ELSE "own", contents)

CopyValue(v, contents) == Value(v.Generate, v.ref, v.own)

\* The value a variable holds; sf is the factory NewSignerFactory returned.
ValueOf(n) == IF n = "sf" THEN Value(Generate, "made", EmptyHandlers) ELSE copies[n]

\* The contents of the map object a value refers to.
ContentsOf(v) ==
    CASE v.ref = "made" -> handlers
      [] v.ref = "own" -> v.own
      [] OTHER -> EmptyHandlers

\* The receiver of a method called on the value in variable n.
Receiver(n) == CopyValue(ValueOf(n), ContentsOf(ValueOf(n)))

\* The map NewSignerFactory made after a write through f that leaves the
\* written object holding contents: the write reaches it only when f refers
\* to it; a write to another object is lost with f when the method returns.
Written(f, contents) == IF f.ref = "made" THEN contents ELSE handlers

\* dst := src
CopyFactory(dst, src) ==
    /\ ValueOf(src).ref # "nil"
    /\ copies' = [copies EXCEPT ![dst] = CopyValue(ValueOf(src), ContentsOf(ValueOf(src)))]
    /\ ret' = [NoRet EXCEPT !.op = "CopyFactory", !.via = src]
    /\ UNCHANGED <<handlers, Generate, modulePath, reg, genAssigned,
                   goroutines, crashed, phase, regVia>>

\* n.AddHandler(keyProto, handler)
AddHandlerOn(n, keyProto, handler) ==
    LET f == Receiver(n)
        keyProtoType == MessageName(keyProto)
    IN  /\ f.ref # "nil"
        /\ handlers' = Written(f, MapSet(ContentsOf(f), keyProtoType, handler))
        /\ reg' = [reg EXCEPT ![keyProto.typ] = handler]
        /\ regVia' = [regVia EXCEPT ![keyProto.typ] = n]
        /\ ret' = [NoRet EXCEPT !.op = "AddHandler", !.typ = keyProto.typ,
                                !.payload = keyProto.payload, !.h = handler,
                                !.prior = reg[keyProto.typ], !.via = n,
                                !.warned = keyProtoType \in DOMAIN ContentsOf(f)]
        /\ UNCHANGED <<Generate, modulePath, genAssigned, goroutines, crashed,
                       phase, copies>>

\* n.RemoveHandler(keyProto)
RemoveHandlerOn(n, keyProto) ==
    LET f == Receiver(n)
    IN  /\ f.ref # "nil"
        /\ handlers' = Written(f, MapDelete(ContentsOf(f), MessageName(keyProto)))
        /\ reg' = [reg EXCEPT ![keyProto.typ] = "removed"]
        /\ regVia' = [regVia EXCEPT ![keyProto.typ] = n]
        /\ ret' = [NoRet EXCEPT !.op = "RemoveHandler", !.typ = keyProto.typ,
                                !.payload = keyProto.payload,
                                !.prior = reg[keyProto.typ], !.via = n]
        /\ UNCHANGED <<Generate, modulePath, genAssigned, goroutines, crashed,
                       phase, copies>>

\* n.NewSigner(ctx, keyProto)
NewSignerOn(n, ctx, keyProto, env) ==
    LET f == Receiver(n)
        keyProtoType == MessageName(keyProto)
        ok == keyProtoType \in DOMAIN ContentsOf(f)
        r == IF ok
             THEN InvokeHandler(ContentsOf(f)[keyProtoType], keyProto, env, modulePath)
             ELSE Result(NilSigner, "no ProtoHandler registered", "none")
    IN  /\ f.ref # "nil"
        /\ ret' = [NoRet EXCEPT !.op = "NewSigner", !.typ = keyProto.typ,
                                !.payload = keyProto.payload, !.ctx = ctx,
                                !.invoked = IF ok THEN ContentsOf(f)[keyProtoType]
                                            ELSE "none",
                                !.prior = reg[keyProto.typ], !.via = n,
                                !.libOK = env.libOK, !.path = modulePath,
                                !.signer = r.signer, !.err = r.err,
                                !.crypto = r.crypto]
        /\ UNCHANGED <<handlers, Generate, modulePath, reg, genAssigned,
                       goroutines, crashed, phase, copies, regVia>>

\* n.Generate = g
SetGenerateOn(n, g) ==
    /\ ValueOf(n).ref # "nil"
    /\ IF n = "sf"
       THEN Generate' = g /\ UNCHANGED copies
       ELSE copies' = [copies EXCEPT ![n].Generate = g] /\ UNCHANGED Generate
    /\ genAssigned' = (genAssigned \/ n = "sf")
    /\ ret' = [NoRet EXCEPT !.op = "SetGenerate", !.via = n]
    /\ UNCHANGED <<handlers, modulePath, reg, goroutines, crashed, phase, regVia>>

\* A request to generate a key from spec through the value in variable n.
GenerateRequestOn(n, spec, env) ==
    LET f == Receiver(n)
        r == GenerateKey(f.Generate, spec, env)
    IN  /\ f.ref # "nil"
        /\ ret' = [NoRet EXCEPT !.op = "GenerateRequest", !.spec = spec,
                                !.via = n, !.libOK = env.libOK,
                                !.desc = r.desc, !.err = r.err,
                                !.crypto = r.crypto]
        /\ UNCHANGED <<handlers, Generate, modulePath, reg, genAssigned,
                       goroutines, crashed, phase, copies, regVia>>

\* The specifications asked for through copies, and the messages handed to
\* them: those of the type pkcs11.go registers a handler for.
CopySpecs == {s \in Specs : ~s.hasMsg}
CopyMessages == {m \in Messages : m.typ = "keyspb.PKCS11Config"}

NextCopies ==
    \/ \E dst \in CopyNames, src \in FactoryNames : CopyFactory(dst, src)
    \/ \E n \in FactoryNames, keyProto \in CopyMessages \cap Examples,
          handler \in KeyHandlerIds :
           AddHandlerOn(n, keyProto, handler)
    \/ \E n \in FactoryNames, keyProto \in CopyMessages \cap Examples :
           RemoveHandlerOn(n, keyProto)
    \/ \E n \in FactoryNames, keyProto \in CopyMessages :
           NewSignerOn(n, "ctx1", keyProto, [libOK |-> TRUE, failPtr |-> "nil"])
    \/ \E n \in FactoryNames, g \in Generators : SetGenerateOn(n, g)
    \/ \E n \in FactoryNames, spec \in CopySpecs :
           GenerateRequestOn(n, spec, [libOK |-> TRUE, failPtr |-> "nil"])

SpecCopies == Init /\ [][NextCopies]_vars

-----------------------------------------------------------------------------
\* The server binary built with the pkcs11 tag (trillian_map_server/pkcs11.go).

\* init(): runs before main, so before the flags are parsed; it registers the
\* handler made from the flag's pointer.
Pkcs11Init ==
    /\ ret.op = "NewSignerFactory"
    /\ modulePath = ""
    /\ AddHandler([typ |-> "keyspb.PKCS11Config", payload |-> "empty"], "pkcs11")

\* main runs once every init has returned.
MainRunning == reg["keyspb.PKCS11Config"] # "never"

NextPkcs11 ==
    \/ Pkcs11Init
    \/ MainRunning /\ SetModulePath
    \/ MainRunning /\ \E keyProto \in Messages, handler \in KeyHandlerIds :
                          AddHandler(keyProto, handler)
    \/ MainRunning /\ \E keyProto \in Messages : RemoveHandler(keyProto)
    \/ MainRunning /\ \E ctx \in Contexts, keyProto \in Messages, env \in Envs :
                          NewSigner(ctx, keyProto, env)

SpecPkcs11 == Init /\ [][NextPkcs11]_vars

-----------------------------------------------------------------------------
\* Properties.

\* The curve value a specification asks for, read off the message itself.
RequestedCurve == IF ret.spec.hasMsg THEN ret.spec.curve ELSE "DEFAULT_CURVE"

\* The bit-length a specification asks for; 0 and an absent message are "unset".
RequestedBits == IF ret.spec.hasMsg THEN ret.spec.bits ELSE 0

IsRsaRequest ==
    ret.op = "NewFromSpec" /\ ret.spec.ptr = "obj" /\ ret.spec.kind = "rsa"

IsEcdsaRequest ==
    ret.op = "NewFromSpec" /\ ret.spec.ptr = "obj" /\ ret.spec.kind = "ecdsa"

\* C1: NewFromSpec with RSA params and a bit-length of at least 2048, or unset
\* (0 or no RsaParams message, meaning 2048), is never rejected: it calls
\* rsa.GenerateKey, fails only with that call's own error, and when the call
\* succeeds returns an RSA key with exactly that modulus bit-length.
C1_RsaExactBits ==
    LET want == IF RequestedBits = 0 THEN 2048 ELSE RequestedBits
    IN  (IsRsaRequest /\ want >= 2048) =>
            /\ ret.crypto = "rsa.GenerateKey"
            /\ ret.err \in {"", "rsa.GenerateKey failed"}
            /\ ret.libOK =>
                   /\ ret.err = ""
                   /\ ret.signer = [typ |-> "*rsa.PrivateKey", ptr |-> "obj",
                                    curve |-> "none", bits |-> want]

C1_Witness ==
    /\ IsRsaRequest
    /\ RequestedBits = 4096
    /\ ret.err = ""
    /\ ret.signer.typ = "*rsa.PrivateKey"
    /\ ret.signer.bits = 4096

\* C2: NewFromSpec with RSA params and a requested (non-zero) bit-length below
\* 2048, negative ones included, returns the minimum-size error, no key, and
\* never calls the key generator.
C2_RsaBelowMinimumRejected ==
    (IsRsaRequest /\ RequestedBits # 0 /\ RequestedBits < 2048) =>
        /\ ret.err = "minimum RSA key size"
        /\ ret.signer = NilSigner
        /\ ret.crypto = "none"

C2_Witness ==
    /\ IsRsaRequest
    /\ RequestedBits = -4096
    /\ ret.err = "minimum RSA key size"
    /\ ret.signer = NilSigner

\* C3: NewFromSpec with ECDSA params and a curve among DEFAULT_CURVE, P256,
\* P384, P521 (no EcdsaParams message meaning DEFAULT_CURVE) calls
\* ecdsa.GenerateKey and, when that succeeds, returns an ECDSA key on the
\* requested curve, DEFAULT_CURVE being P-256.
C3_EcdsaCurveMatches ==
    LET want == CASE RequestedCurve = "DEFAULT_CURVE" -> "P-256"
                  [] RequestedCurve = "P256" -> "P-256"
                  [] RequestedCurve = "P384" -> "P-384"
                  [] RequestedCurve = "P521" -> "P-521"
                  [] OTHER -> "none"
    IN  (IsEcdsaRequest /\ RequestedCurve \in {"DEFAULT_CURVE", "P256", "P384", "P521"}) =>
            /\ ret.crypto = "ecdsa.GenerateKey"
            /\ ret.err \in {"", "ecdsa.GenerateKey failed"}
            /\ ret.libOK =>
                   /\ ret.err = ""
                   /\ ret.signer = [typ |-> "*ecdsa.PrivateKey", ptr |-> "obj",
                                    curve |-> want, bits |-> 0]

C3_Witness ==
    /\ IsEcdsaRequest
    /\ ~ret.spec.hasMsg
    /\ ret.err = ""
    /\ ret.signer.typ = "*ecdsa.PrivateKey"
    /\ ret.signer.curve = "P-256"

\* C4: NewFromSpec with an ECDSA curve value outside DEFAULT_CURVE, P256, P384,
\* P521 returns the unsupported-curve error and no key without calling the key
\* generator, and ECDSACurveFromParams returns nil exactly for those values.
C4_UnsupportedCurveRejected ==
    /\ (IsEcdsaRequest /\ RequestedCurve \notin {"DEFAULT_CURVE", "P256", "P384", "P521"}) =>
            /\ ret.err = "unsupported ECDSA curve"
            /\ ret.signer = NilSigner
            /\ ret.crypto = "none"
    /\ ret.op = "ECDSACurveFromParams" =>
            (ret.curve = "nil" <=>
                RequestedCurve \notin {"DEFAULT_CURVE", "P256", "P384", "P521"})

C4_Witness ==
    /\ IsEcdsaRequest
    /\ RequestedCurve = "UNKNOWN_4"
    /\ ret.err = "unsupported ECDSA curve"
    /\ ret.signer = NilSigner

\* C5: NewFromSpec on a nil specification, and on a specification with no
\* params set, returns the unsupported-params-type error and no key, and calls
\* no key generator.
C5_NoParamsRejected ==
    (ret.op = "NewFromSpec" /\ (ret.spec.ptr = "nil" \/ ret.spec.kind = "nil")) =>
        /\ ret.err = "unsupported keygen params type"
        /\ ret.signer = NilSigner
        /\ ret.crypto = "none"

C5_Witness ==
    /\ ret.op = "NewFromSpec"
    /\ ret.spec.ptr = "nil"
    /\ ret.err = "unsupported keygen params type"
    /\ ret.signer = NilSigner

\* The keys of the registry that belong to message type t.
KeysOf(t) == {k \in DOMAIN handlers : k[1] = t}

\* C6: NewSigner on a message whose type never had a handler added since the
\* factory was made fails with the no-handler error and invokes nothing; once
\* AddHandler was called for the type, NewSigner on any message of that type,
\* whatever its fields, invokes the handler given to that AddHandler.
C6_DispatchByType ==
    ret.op = "NewSigner" =>
        /\ ret.prior = "never" =>
               /\ ret.err = "no ProtoHandler registered"
               /\ ret.invoked = "none"
               /\ ret.signer = NilSigner
        /\ ret.prior \in HandlerIds => ret.invoked = ret.prior

C6_Witness ==
    /\ ret.op = "NewSigner"
    /\ ret.prior = "h1"
    /\ ret.invoked = "h1"
    /\ ret.payload = "malformed"

\* C7: the registry holds at most one handler per message type, and it is the
\* one given by the most recent AddHandler for the type; AddHandler warns
\* exactly when the type already had a handler.
C7_LastHandlerWins ==
    /\ \A t \in MsgTypes :
           /\ Cardinality(KeysOf(t)) <= 1
           /\ reg[t] \in HandlerIds =>
                  /\ KeysOf(t) # {}
                  /\ \A k \in KeysOf(t) : handlers[k] = reg[t]
    /\ ret.op = "AddHandler" => (ret.warned <=> ret.prior \in HandlerIds)

C7_Witness ==
    /\ ret.op = "AddHandler"
    /\ ret.warned
    /\ ret.prior = "h1"
    /\ ret.h = "h2"
    /\ \A k \in KeysOf(ret.typ) : handlers[k] = "h2"

\* C8: after RemoveHandler for a type the registry has no handler for it, and
\* NewSigner on the type fails with the no-handler error as long as no
\* AddHandler follows; RemoveHandler for a type without a handler leaves the
\* registry as it was.
C8_RemovedTypeFails ==
    /\ [](\A t \in MsgTypes : reg[t] = "removed" => KeysOf(t) = {})
    /\ []((ret.op = "NewSigner" /\ ret.prior = "removed") =>
              /\ ret.err = "no ProtoHandler registered"
              /\ ret.invoked = "none"
              /\ ret.signer = NilSigner)
    /\ [][(ret'.op = "RemoveHandler" /\ ret'.prior \in {"never", "removed"}) =>
              handlers' = handlers]_vars

C8_Witness ==
    /\ ret.op = "NewSigner"
    /\ ret.prior = "removed"
    /\ ret.err = "no ProtoHandler registered"

C10_NilSignerOnError ==
    (ret.op \in {"NewFromSpec", "NewSigner"} /\ ret.err # "") => ret.signer = NilSigner

\* C11: whenever NewFromSpec reports a policy violation (RSA size below the
\* minimum, unsupported ECDSA curve) it has made no key-generation call, the
\* only place where the random source is read.
C11_PolicyErrorBeforeCrypto ==
    (ret.op = "NewFromSpec"
        /\ ret.err \in {"minimum RSA key size", "unsupported ECDSA curve"}) =>
        /\ ret.crypto = "none"
        /\ \/ ret.spec.kind = "rsa" /\ RequestedBits # 0 /\ RequestedBits < 2048
           \/ ret.spec.kind = "ecdsa"
                /\ RequestedCurve \notin {"DEFAULT_CURVE", "P256", "P384", "P521"}

C11_Witness ==
    /\ IsRsaRequest
    /\ RequestedBits = 2047
    /\ ret.err = "minimum RSA key size"
    /\ ret.crypto = "none"

\* A block that holds a key NewFromPrivatePEM can read with the password, and
\* the key it holds, read off the test material.
LoadsAlone(block, password) ==
    block \in {"ecdsa", "rsa"} \/ (block = "encrypted" /\ password = "towel")

KeyIn(block) ==
    IF block = "rsa"
    THEN [typ |-> "*rsa.PrivateKey", ptr |-> "obj", curve |-> "none", bits |-> 2048]
    ELSE [typ |-> "*ecdsa.PrivateKey", ptr |-> "obj", curve |-> "P-256", bits |-> 0]

\* C12: when the first PEM block of the input holds a loadable key,
\* NewFromPrivatePEM fails with no signer if non-PEM bytes follow the block,
\* and succeeds with the block's own key if the block ends the input, whatever
\* non-PEM bytes precede it.
C12_TrailingFailsLeadingSkipped ==
    ret.op = "NewFromPrivatePEM" =>
        \A i \in 1..Len(ret.pem) :
            (LoadsAlone(ret.pem[i], ret.password)
                /\ \A j \in 1..(i - 1) : ret.pem[j] = "junk") =>
                /\ (\E k \in (i + 1)..Len(ret.pem) : ret.pem[k] = "junk") =>
                       (ret.err # "" /\ ret.signer = NilSigner)
                /\ i = Len(ret.pem) =>
                       (ret.err = "" /\ ret.signer = KeyIn(ret.pem[i]))

C12_Witness ==
    /\ ret.op = "NewFromPrivatePEM"
    /\ ret.pem = <<"junk", "rsa">>
    /\ ret.err = ""
    /\ ret.signer.typ = "*rsa.PrivateKey"

\* C13: NewFromPrivatePEM on an encrypted private-key block succeeds with the
\* password the key was encrypted under and fails with no signer for every
\* other password; the signer it returns signs the test digest with a
\* signature that verifies against its own public key whenever signing works.
C13_EncryptedKeyNeedsPassword ==
    /\ (ret.op = "NewFromPrivatePEM" /\ ret.pem = <<"encrypted">>) =>
           IF ret.password = "towel"
           THEN ret.err = "" /\ ret.signer = KeyIn("encrypted")
           ELSE ret.err # "" /\ ret.signer = NilSigner
    /\ (ret.op = "signAndVerify" /\ ret.prior = "NewFromPrivatePEM"
            /\ ret.pem = <<"encrypted">> /\ ret.libOK) =>
           ret.err = ""

C13_Witness ==
    /\ ret.op = "signAndVerify"
    /\ ret.prior = "NewFromPrivatePEM"
    /\ ret.pem = <<"encrypted">>
    /\ ret.password = "towel"
    /\ ret.libOK
    /\ ret.err = ""

\* C14: NewFromPrivatePEMFile returns an error and no signer for a path that
\* is missing or unreadable, and for a readable file the signer and error
\* NewFromPrivatePEM returns for the file's contents and the same password.
C14_FileLoadsAsItsContents ==
    ret.op = "NewFromPrivatePEMFile" =>
        /\ ret.file \in {"missing", "unreadable"} =>
               (ret.err # "" /\ ret.signer = NilSigner)
        /\ ret.file = "readable" =>
               /\ ret.signer = NewFromPrivatePEM(ret.pem, ret.password).signer
               /\ ret.err = NewFromPrivatePEM(ret.pem, ret.password).err

C14_Witness ==
    /\ ret.op = "NewFromPrivatePEMFile"
    /\ ret.file = "readable"
    /\ ret.pem = <<"encrypted">>
    /\ ret.password = "towel"
    /\ ret.err = ""
    /\ ret.signer.typ = "*ecdsa.PrivateKey"

\* C15: resolving a keyspb.PrivateKey descriptor through a factory whose
\* handler for that type is the DER handler fails with no signer when the DER
\* bytes are malformed or empty, and for valid PKCS#8 bytes succeeds with a
\* private key whose signature over the test digest verifies against its own
\* public key whenever signing works.
C15_DerHandlerParsesOrFails ==
    /\ (ret.op = "NewSigner" /\ ret.typ = "keyspb.PrivateKey" /\ ret.prior = "der") =>
           /\ ret.payload \in {"malformed", "empty"} =>
                  (ret.err # "" /\ ret.signer = NilSigner)
           /\ ret.payload = "valid" =>
                  /\ ret.err = ""
                  /\ ret.signer.typ \in {"*ecdsa.PrivateKey", "*rsa.PrivateKey"}
                  /\ ret.signer.ptr = "obj"
    /\ (ret.op = "signAndVerify" /\ ret.prior = "NewSigner"
            /\ ret.typ = "keyspb.PrivateKey" /\ ret.invoked = "der" /\ ret.libOK) =>
           ret.err = ""

C15_Witness ==
    /\ ret.op = "signAndVerify"
    /\ ret.prior = "NewSigner"
    /\ ret.typ = "keyspb.PrivateKey"
    /\ ret.invoked = "der"
    /\ ret.payload = "valid"
    /\ ret.libOK
    /\ ret.err = ""

\* C16: a key NewFromSpec generated, ECDSA or RSA, signs the SHA-256 test
\* digest with a signature that verifies against the key's own public key,
\* whenever signing itself works.
C16_SignVerifyRoundTrip ==
    (ret.op = "signAndVerify" /\ ret.prior = "NewFromSpec" /\ ret.libOK) =>
        /\ ret.signer.typ \in {"*ecdsa.PrivateKey", "*rsa.PrivateKey"}
        /\ ret.err = ""

C16_Witness ==
    /\ ret.op = "signAndVerify"
    /\ ret.prior = "NewFromSpec"
    /\ ret.signer.typ = "*rsa.PrivateKey"
    /\ ret.libOK
    /\ ret.err = ""

C18_SessionOnlyAfterChecks ==
    (ret.op = "NewSigner" /\ ret.invoked = "pkcs11"
        /\ ret.typ = "keyspb.PKCS11Config") =>
        /\ ret.crypto = "pkcs11key.New" <=>
               (modulePath # "" /\ ret.payload = "valid")
        /\ modulePath = "" =>
               /\ ret.err = "pkcs11: No module path"
               /\ ret.signer = NilSigner
        /\ (modulePath # "" /\ ret.payload # "valid") =>
               /\ ret.err = "pkcs11: error loading public key"
               /\ ret.signer = NilSigner

C18_Witness ==
    /\ ret.op = "NewSigner"
    /\ ret.invoked = "pkcs11"
    /\ ret.typ = "keyspb.PKCS11Config"
    /\ modulePath # ""
    /\ ret.payload = "valid"
    /\ ret.crypto = "pkcs11key.New"
    /\ ret.err = ""

\* C20: NewSigner on a message whose type has a handler registered invokes
\* that handler, and no other, exactly once, with the context and the message
\* it was given, and returns that invocation's signer and error as they are,
\* a handler's error included; with no handler registered it invokes nothing.
C20_LookupAndDelegate ==
    ret.op = "NewSigner" =>
        LET pb == [typ |-> ret.typ, payload |-> ret.payload]
        IN  IF ret.prior \in {"never", "removed"}
            THEN ret.calls = <<>> /\ ret.invoked = "none"
            ELSE /\ ret.calls = <<[h |-> ret.prior, ctx |-> ret.ctx, pb |-> pb]>>
                 /\ \E env \in Envs :
                        /\ env.libOK = ret.libOK
                        /\ ret.signer = InvokeHandler(ret.prior, pb, env, modulePath).signer
                        /\ ret.err = InvokeHandler(ret.prior, pb, env, modulePath).err

C20_Witness ==
    /\ ret.op = "NewSigner"
    /\ ret.prior = "h1"
    /\ reg[ret.typ] = "h1"
    /\ \E t \in MsgTypes : t # ret.typ /\ reg[t] = "h2"
    /\ ret.err = "handler failed"
    /\ Len(ret.calls) = 1

\* The handler a lookup of type t resolves to when the registrations are
\* over: the one last added and not removed since.
Registered(t) == IF reg[t] \in {"never", "removed"} THEN "none" ELSE reg[t]

\* C19: the factory takes no lock: a goroutine about to read or write
\* f.handlers is never made to wait, whatever the other goroutines are doing;
\* and as long as every AddHandler and RemoveHandler call has returned before
\* the first NewSigner call starts, nothing stops the process and every
\* NewSigner call, however the calls interleave, resolves to the handler
\* registered for its message type.
C19_NoLockAndOrderedUseIsSafe ==
    /\ ~crashed =>
           \A g \in Goroutines :
               goroutines[g].pc \in {"AddHandler:63", "AddHandler:67",
                                     "RemoveHandler:73", "NewSigner:81"} =>
                   ENABLED MapAccess(g)
    /\ phase # "mixed" =>
           /\ ~crashed
           /\ \A g \in Goroutines :
                  goroutines[g].pc = "returned" =>
                      /\ goroutines[g].found = Registered(goroutines[g].typ)
                      /\ ~goroutines[g].raced

\* A lookup has read the map while a registration was inside it.
C19_Witness ==
    \E r \in Goroutines, w \in Goroutines :
        /\ r # w
        /\ goroutines[r].pc = "returned"
        /\ goroutines[r].raced
        /\ goroutines[w].pc = "mapassign"
        /\ goroutines[w].key = goroutines[r].key

\* The registry entries of the message types other than t are the same before
\* and after the step.
OtherTypesKept(t) ==
    \A k \in DOMAIN handlers \cup DOMAIN handlers' :
        k[1] # t =>
            /\ k \in DOMAIN handlers
            /\ k \in DOMAIN handlers'
            /\ handlers'[k] = handlers[k]

\* C21: a NewSigner call, whether it returns a signer or an error, leaves the
\* handler mapping and the Generate field as they were; an AddHandler or
\* RemoveHandler call for a message type leaves the entries of every other
\* type, and the Generate field, as they were.
C21_RegistryFrame ==
    [][/\ ret'.op = "NewSigner" =>
              (handlers' = handlers /\ Generate' = Generate)
       /\ ret'.op \in {"AddHandler", "RemoveHandler"} =>
              (OtherTypesKept(ret'.typ) /\ Generate' = Generate)]_vars

C21_Witness ==
    /\ ret.op = "AddHandler"
    /\ ret.prior = "h1"
    /\ ret.h = "h2"
    /\ \E t \in MsgTypes :
           /\ t # ret.typ
           /\ reg[t] = "pkcs11"
           /\ <<t>> \in DOMAIN handlers
           /\ handlers[<<t>>] = "pkcs11"
    /\ Generate = "gen"

\* C22: every copy of the factory value shares the factory's handler
\* registry: NewSigner through any value resolves to the handler last added
\* for the message type, and to none after its removal, through whichever
\* value the handler was added or removed; the Generate field is each
\* value's own: assigning it on one value changes it on no other, and a
\* generation request through a value uses that value's Generate.
C22_CopiesShareRegistryNotGenerate ==
    /\ [](ret.op = "NewSigner" => ret.invoked = Registered(ret.typ))
    /\ [][ret'.op = "SetGenerate" =>
              /\ ret'.via # "sf" => Generate' = Generate
              /\ \A c \in CopyNames \ {ret'.via} :
                     copies'[c].Generate = copies[c].Generate]_vars
    /\ [](ret.op = "GenerateRequest" =>
              (ret.err = "generation not supported" <=>
                   (IF ret.via = "sf" THEN Generate
                    ELSE copies[ret.via].Generate) = "nil"))

C22_Witness ==
    /\ ret.op = "NewSigner"
    /\ ret.via = "sf"
    /\ regVia[ret.typ] = "c1"
    /\ reg[ret.typ] = "h1"
    /\ ret.invoked = "h1"
    /\ copies["c1"].Generate = "gen"
    /\ Generate = "nil"

\* C23: with the pkcs11 handler registered by init, while the module-path
\* flag was still empty, a NewSigner call on a keyspb.PKCS11Config fails with
\* "No module path" exactly when the flag is empty at the time of that call;
\* when the flag has been set since, the handler goes on with the path the
\* flag holds then, to the public key and, if that parses, to the module.
C23_PathReadAtEachCall ==
    (ret.op = "NewSigner" /\ ret.typ = "keyspb.PKCS11Config"
        /\ reg[ret.typ] = "pkcs11") =>
        /\ ret.invoked = "pkcs11"
        /\ ret.err = "pkcs11: No module path" <=> modulePath = ""
        /\ (modulePath # "" /\ ret.payload = "valid") =>
               ret.crypto = "pkcs11key.New"
        /\ (modulePath # "" /\ ret.payload = "valid" /\ ret.libOK) =>
               ret.err = ""

C23_Witness ==
    /\ ret.op = "NewSigner"
    /\ ret.typ = "keyspb.PKCS11Config"
    /\ reg[ret.typ] = "pkcs11"
    /\ ret.prior = "pkcs11"
    /\ modulePath # ""
    /\ ret.payload = "valid"
    /\ ret.libOK
    /\ ret.signer.typ = "*pkcs11key.Key"
    /\ ret.err = ""

=============================================================================
